---- MODULE Spec2Model ----
(***************************************************************************)
(* Model of deer_wintering_analysis_dashboard.py: the data-processing part *)
(* of the script (lines 44-127).  The script is a straight line of         *)
(* top-level statements; pc is the statement about to run.  The frame gdf  *)
(* is column-oriented, as in pandas: a function from column names to       *)
(* sequences of equal length.  Fractional numbers are exact rationals      *)
(* [num, den]; den = 0 encodes float('inf') (num = 1) and NaN (num = 0).   *)
(***************************************************************************)
EXTENDS Integers, Sequences, FiniteSets, TLC

VARIABLES pc, gdf, error, summary, size_counts, region_dist

vars == <<pc, gdf, error, summary, size_counts, region_dist>>

(* ------------------------------ bounds --------------------------------- *)

\* largest number of features the feature service returns
MaxRecords == 3

\* centroid latitudes are grid steps 0..MaxLat above the southernmost one
MaxLat == 4

(* --------------------------- exact numbers ----------------------------- *)

RECURSIVE GCD(_, _)
GCD(a, b) == IF b = 0 THEN a ELSE GCD(b, a % b)

Abs(n) == IF n < 0 THEN -n ELSE n

\* n / d for d > 0, in lowest terms
Rat(n, d) == LET g == GCD(Abs(n), d) IN [num |-> n \div g, den |-> d \div g]

Inf == [num |-> 1, den |-> 0]

NaN == [num |-> 0, den |-> 0]

IsNaN(q) == q.num = 0 /\ q.den = 0

\* IEEE comparisons: every comparison with NaN is false
Less(a, b) == ~IsNaN(a) /\ ~IsNaN(b) /\ a.num * b.den < b.num * a.den

LessEq(a, b) == ~IsNaN(a) /\ ~IsNaN(b) /\ a.num * b.den <= b.num * a.den

Add(a, b) == Rat(a.num * b.den + b.num * a.den, a.den * b.den)

(* ----------------------------- the input ------------------------------- *)

\* areas of the projected geometries, in square metres (EPSG:26919 units)
AreaInputs == {0, 500000, 1000000, 3000000, 5000000, 7000000, 10000000, 12000000}

\* centroid longitude of the geometries (degrees)
Lons == {-69}

\* features that vary in area, lying on the southern or the northern edge
AreaFeatures == [area : AreaInputs, lat : {0, MaxLat}, lon : Lons]

\* features that vary in latitude
LatFeatures == [area : {500000, 3000000}, lat : 0..MaxLat, lon : Lons]

Batches(F) == UNION {[1..n -> F] : n \in 0..MaxRecords}

(* --------------------------- series helpers ---------------------------- *)

Column(name) == gdf[name]

HasColumn(name) == name \in DOMAIN gdf

\* Series.min(): NaN for an empty series
SeriesMin(s) ==
    IF Len(s) = 0 THEN NaN
    ELSE s[CHOOSE i \in 1..Len(s) : \A j \in 1..Len(s) : LessEq(s[i], s[j])]

\* Series.max(): NaN for an empty series
SeriesMax(s) ==
    IF Len(s) = 0 THEN NaN
    ELSE s[CHOOSE i \in 1..Len(s) : \A j \in 1..Len(s) : LessEq(s[j], s[i])]

RECURSIVE SeriesSum(_)
SeriesSum(s) == IF Len(s) = 0 THEN Rat(0, 1) ELSE Add(Head(s), SeriesSum(Tail(s)))

\* Series.mean(): NaN for an empty series
SeriesMean(s) ==
    IF Len(s) = 0 THEN NaN
    ELSE LET t == SeriesSum(s) IN Rat(t.num, t.den * Len(s))

RECURSIVE Insert(_, _)
Insert(x, s) ==
    IF Len(s) = 0 THEN <<x>>
    ELSE IF LessEq(x, Head(s)) THEN <<x>> \o s
    ELSE <<Head(s)>> \o Insert(x, Tail(s))

RECURSIVE SortValues(_)
SortValues(s) == IF Len(s) = 0 THEN <<>> ELSE Insert(Head(s), SortValues(Tail(s)))

\* SeriesMedian without the averaging of the two middle values
SeriesMedianUpper(s) ==
    IF Len(s) = 0 THEN NaN ELSE SortValues(s)[Len(s) \div 2 + 1]

\* Series.median(): the middle of the sorted values, the mean of the two
\* middle ones for an even count, NaN for an empty series
SeriesMedian(s) ==
    LET n == Len(s)
        t == SortValues(s)
    IN  IF n = 0 THEN NaN
        ELSE IF n % 2 = 1 THEN t[(n + 1) \div 2]
        ELSE LET m == Add(t[n \div 2], t[n \div 2 + 1]) IN Rat(m.num, m.den * 2)

(* -------------------------------- Init --------------------------------- *)

\* state after gpd.read_file: the frame holds the geometry column only
Init ==
    /\ pc = "metrics"
    /\ \E b \in Batches(AreaFeatures) \cup Batches(LatFeatures) :
          gdf = [geometry |-> b]
    /\ error = "none"
    /\ summary = <<>>
    /\ size_counts = <<>>
    /\ region_dist = <<>>

(* ------------------------------ actions -------------------------------- *)

\* geometry.area / 10**6
AreaKm2(area) == Rat(area, 10^6)

\* lines 46-56: area in km2 and the centroid coordinates
ComputeMetrics ==
    /\ pc = "metrics"
    /\ LET g == Column("geometry")
           n == Len(g)
       IN  gdf' = [geometry |-> g,
                   area_km2 |-> [i \in 1..n |-> AreaKm2(g[i].area)],
                   centroid_lat |-> [i \in 1..n |-> Rat(g[i].lat, 1)],
                   centroid_lon |-> [i \in 1..n |-> Rat(g[i].lon, 1)]]
    /\ pc' = "size_category"
    /\ UNCHANGED <<error, summary, size_counts, region_dist>>

(* pd.cut(x, bins, labels) with the defaults right=True,                   *)
(* include_lowest=False, duplicates='raise': bin k is (bins[k], bins[k+1]] *)
(* and a value in no bin, the lowest edge included, gets NaN.              *)

\* np.diff(bins) < 0 somewhere: "bins must increase monotonically."
BinsDecrease(bins) == \E k \in 1..(Len(bins) - 1) : Less(bins[k + 1], bins[k])

\* BinsDuplicated with NaN edges taken as distinct values
BinsDuplicatedNoNaN(bins) ==
    \E j, k \in 1..Len(bins) : j < k /\ ~IsNaN(bins[j]) /\ bins[j] = bins[k]

\* algos.unique(bins) is shorter than bins (NaN edges count as one value):
\* "Bin edges must be unique"
BinsDuplicated(bins) == \E j, k \in 1..Len(bins) : j < k /\ bins[j] = bins[k]

\* CutRaises under duplicates='drop'
CutRaisesDrop(bins) == BinsDecrease(bins)

CutRaises(bins) == BinsDecrease(bins) \/ BinsDuplicated(bins)

InBin(v, bins, k) == Less(bins[k], v) /\ LessEq(v, bins[k + 1])

Cut(x, bins, labels) ==
    [i \in 1..Len(x) |->
        IF \E k \in 1..Len(labels) : InBin(x[i], bins, k)
        THEN labels[CHOOSE k \in 1..Len(labels) : InBin(x[i], bins, k)]
        ELSE "NaN"]

\* np.linspace(lo, hi, num): num evenly spaced edges from lo to hi
Linspace(lo, hi, num) ==
    [k \in 1..num |->
        IF IsNaN(lo) \/ IsNaN(hi) THEN NaN
        ELSE Rat(lo.num * hi.den * (num - k) + hi.num * lo.den * (k - 1),
                 lo.den * hi.den * (num - 1))]

SizeBins == <<Rat(0, 1), Rat(1, 1), Rat(5, 1), Rat(10, 1), Inf>>

\* SizeLabels with the first two labels exchanged
SizeLabelsSwapped ==
    <<"Medium (1-5 km2)", "Small (< 1 km2)", "Large (5-10 km2)", "Very Large (>10 km2)">>

SizeLabels ==
    <<"Small (< 1 km2)", "Medium (1-5 km2)", "Large (5-10 km2)", "Very Large (>10 km2)">>

LatitudeLabels ==
    <<"Southern Maine", "South-Central Maine", "Central Maine", "Northern Maine">>

LatitudeBins(lat) == Linspace(SeriesMin(lat), SeriesMax(lat), 5)

\* lines 60-67: size categories
ClassifySize ==
    /\ pc = "size_category"
    /\ ~CutRaises(SizeBins)
    /\ gdf' = ("size_category" :> Cut(Column("area_km2"), SizeBins, SizeLabels)) @@ gdf
    /\ pc' = "latitude_band"
    /\ UNCHANGED <<error, summary, size_counts, region_dist>>

\* lines 70-79: latitude bands
ClassifyLatitude ==
    /\ pc = "latitude_band"
    /\ ~CutRaises(LatitudeBins(Column("centroid_lat")))
    /\ gdf' = ("latitude_band" :>
                  Cut(Column("centroid_lat"), LatitudeBins(Column("centroid_lat")),
                      LatitudeLabels)) @@ gdf
    /\ pc' = "summary"
    /\ UNCHANGED <<error, summary, size_counts, region_dist>>

\* lines 70-79: pd.cut raises ValueError, which ends the script
ClassifyLatitudeRaises ==
    /\ pc = "latitude_band"
    /\ CutRaises(LatitudeBins(Column("centroid_lat")))
    /\ error' = "ValueError"
    /\ pc' = "raised"
    /\ UNCHANGED <<gdf, summary, size_counts, region_dist>>

\* lines 82-86: summary statistics
Summarize ==
    /\ pc = "summary"
    /\ summary' = <<[total_areas |-> Len(Column("geometry")),
                     total_area |-> SeriesSum(Column("area_km2")),
                     avg_area |-> SeriesMean(Column("area_km2")),
                     median_area |-> SeriesMedian(Column("area_km2")),
                     largest_area |-> SeriesMax(Column("area_km2"))]>>
    /\ pc' = "size_counts"
    /\ UNCHANGED <<gdf, error, size_counts, region_dist>>

Count(col, label) == Cardinality({i \in 1..Len(col) : col[i] = label})

RECURSIVE InsertByCount(_, _)
InsertByCount(e, s) ==
    IF Len(s) = 0 THEN <<e>>
    ELSE IF e.count > Head(s).count THEN <<e>> \o s
    ELSE <<Head(s)>> \o InsertByCount(e, Tail(s))

RECURSIVE CountsFrom(_, _, _)
CountsFrom(col, labels, k) ==
    IF k = 0 THEN <<>>
    ELSE InsertByCount([label |-> labels[k], count |-> Count(col, labels[k])],
                       CountsFrom(col, labels, k - 1))

\* Series.value_counts() of a categorical column: one row per category,
\* missing values dropped, rows in descending order of count
ValueCounts(col, labels) == CountsFrom(col, labels, Len(labels))

\* SortIndex left out: the rows stay in the order of value_counts()
SortIndexNone(table, labels) == table

\* Series.sort_index() of a table indexed by category: rows in category order
SortIndex(table, labels) ==
    [k \in 1..Len(table) |->
        table[CHOOSE j \in 1..Len(table) :
                 Cardinality({i \in 1..Len(table) :
                     (CHOOSE r \in 1..Len(labels) : labels[r] = table[i].label)
                   < (CHOOSE r \in 1..Len(labels) : labels[r] = table[j].label)}) = k - 1]]

\* line 90: size table of the bar chart
SizeCounts ==
    /\ pc = "size_counts"
    /\ size_counts' = SortIndex(ValueCounts(Column("size_category"), SizeLabels), SizeLabels)
    /\ pc' = "region_dist"
    /\ UNCHANGED <<gdf, error, summary, region_dist>>

\* line 127: region table of the pie chart; the figures and the layout follow
RegionDist ==
    /\ pc = "region_dist"
    /\ region_dist' =
          SortIndex(ValueCounts(Column("latitude_band"), LatitudeLabels), LatitudeLabels)
    /\ pc' = "done"
    /\ UNCHANGED <<gdf, error, summary, size_counts>>

Next ==
    \/ ComputeMetrics
    \/ ClassifySize
    \/ ClassifyLatitude
    \/ ClassifyLatitudeRaises
    \/ Summarize
    \/ SizeCounts
    \/ RegionDist

Spec == Init /\ [][Next]_vars

(* ------------------------------ claims --------------------------------- *)

Range(f) == {f[i] : i \in DOMAIN f}

Rows == 1..Len(Column("geometry"))

\* the statements up to and including the latitude classification have run
LatitudeStepRan == pc \notin {"metrics", "size_category", "latitude_band"}

\* rank of a size category in the order Small < Medium < Large < Very Large;
\* a missing category (categorical code -1) ranks below all of them
SizeRank(c) ==
    CASE c = "Small (< 1 km2)" -> 1
      [] c = "Medium (1-5 km2)" -> 2
      [] c = "Large (5-10 km2)" -> 3
      [] c = "Very Large (>10 km2)" -> 4
      [] OTHER -> 0

\* C1: an area exactly on a threshold (1, 5 or 10 km2) gets the category that
\* starts at that threshold; 1.0 km2 is Medium and not Small.
C1_ThresholdStartsCategory ==
    HasColumn("size_category") =>
        \A i \in Rows :
            LET a == Column("geometry")[i].area
                c == Column("size_category")[i]
            IN  /\ a = 1000000 => c = "Medium (1-5 km2)"
                /\ a = 5000000 => c = "Large (5-10 km2)"
                /\ a = 10000000 => c = "Very Large (>10 km2)"

\* C2: once the latitude bands are assigned (the latitudes are not all equal),
\* every record has exactly one of the four bands, the records at the batch
\* minimum and at the batch maximum included.
C2_EveryRecordHasBand ==
    HasColumn("latitude_band") =>
        \A i \in Rows : Column("latitude_band")[i] \in Range(LatitudeLabels)

\* C3: every record with area_km2 >= 0 gets one of the four size categories,
\* and area 0 is Small.
C3_SizeTotal ==
    HasColumn("size_category") =>
        \A i \in Rows :
            /\ Column("size_category")[i] \in Range(SizeLabels)
            /\ Column("geometry")[i].area = 0
                  => Column("size_category")[i] = "Small (< 1 km2)"

\* the batch is not empty and all its centroid latitudes are equal
DegenerateRange ==
    /\ Len(Column("geometry")) >= 1
    /\ \A i, j \in Rows : Column("geometry")[i].lat = Column("geometry")[j].lat

\* C4: when the minimum and the maximum centroid latitude are equal, the
\* latitude classification raises, assigns no band, and the run never produces
\* the region distribution.
C4_DegenerateRangeRaises ==
    (DegenerateRange /\ LatitudeStepRan) =>
        /\ pc = "raised"
        /\ error = "ValueError"
        /\ ~HasColumn("latitude_band")
        /\ region_dist = <<>>

C4_Witness ==
    /\ pc = "raised"
    /\ Len(Column("geometry")) = 1

\* C5: an empty batch ends in an error; no summary statistics and no
\* distribution is ever produced for it, so no run completes with a record
\* count of 0.
C5_EmptyInputRaises ==
    Len(Column("geometry")) = 0 =>
        /\ pc # "done"
        /\ LatitudeStepRan => (pc = "raised" /\ error # "none")
        /\ summary = <<>>
        /\ size_counts = <<>>
        /\ region_dist = <<>>

C5_Witness ==
    /\ pc = "raised"
    /\ Len(Column("geometry")) = 0

FullyDecorated ==
    /\ \A c \in {"area_km2", "centroid_lat", "centroid_lon", "size_category",
                 "latitude_band"} : HasColumn(c)
    /\ \A i \in Rows :
          /\ ~IsNaN(Column("area_km2")[i])
          /\ ~IsNaN(Column("centroid_lat")[i])
          /\ ~IsNaN(Column("centroid_lon")[i])
          /\ Column("size_category")[i] # "NaN"
          /\ Column("latitude_band")[i] # "NaN"

\* C6: a run that does not raise completes with every record fully decorated:
\* no derived field of any record is missing.
C6_DoneMeansDecorated == pc = "done" => FullyDecorated

RECURSIVE SumSquareMetres(_, _)
SumSquareMetres(g, n) == IF n = 0 THEN 0 ELSE g[n].area + SumSquareMetres(g, n - 1)

Below(a, v) == Cardinality({k \in 1..Len(a) : Less(a[k], v)})

UpTo(a, v) == Cardinality({k \in 1..Len(a) : LessEq(a[k], v)})

\* v is the r-th smallest value of a
IsOrderStatistic(a, v, r) ==
    /\ \E k \in 1..Len(a) : a[k] = v
    /\ Below(a, v) < r
    /\ UpTo(a, v) >= r

\* C7: every area_km2 is >= 0, and the summary holds the number of records,
\* the sum of the areas, the largest area and the median of the areas: the
\* middle value of the sorted areas (for an even count, the mean of the two
\* middle values).
C7_SummaryMatchesAreas ==
    summary # <<>> =>
        LET s == summary[1]
            a == Column("area_km2")
            g == Column("geometry")
            n == Len(g)
        IN  /\ n >= 1
            /\ \A i \in 1..n : a[i].den > 0 /\ a[i].num >= 0
            /\ s.total_areas = n
            /\ s.total_area.den > 0
            /\ s.total_area.num * 10^6 = s.total_area.den * SumSquareMetres(g, n)
            /\ \E i \in 1..n : a[i] = s.largest_area
            /\ \A i \in 1..n : LessEq(a[i], s.largest_area)
            /\ n % 2 = 1 => IsOrderStatistic(a, s.median_area, (n + 1) \div 2)
            /\ n % 2 = 0 =>
                  \E i, j \in 1..n :
                      /\ IsOrderStatistic(a, a[i], n \div 2)
                      /\ IsOrderStatistic(a, a[j], n \div 2 + 1)
                      /\ s.median_area.den > 0
                      /\ s.median_area.num * 2 * 10^6
                            = s.median_area.den * (g[i].area + g[j].area)

\* areas 0.5, 3 and 12 km2: total 15.5, median 3.0
C7_Witness ==
    /\ summary # <<>>
    /\ [i \in Rows |-> Column("geometry")[i].area] = <<500000, 3000000, 12000000>>
    /\ summary[1].total_area = [num |-> 31, den |-> 2]
    /\ summary[1].median_area = [num |-> 3, den |-> 1]
    /\ summary[1].largest_area = [num |-> 12, den |-> 1]
    /\ summary[1].total_areas = 3

OrdinalTable(table, col, order) ==
    /\ Len(table) = 4
    /\ \A k \in 1..4 :
          /\ table[k].label = order[k]
          /\ table[k].count = Cardinality({i \in Rows : Column(col)[i] = order[k]})

\* C8: both tables list all four categories in their ordinal order, a category
\* without records with count 0 in its place, whatever the counts are.
C8_TablesInOrdinalOrder ==
    /\ size_counts # <<>> =>
          OrdinalTable(size_counts, "size_category",
                       <<"Small (< 1 km2)", "Medium (1-5 km2)", "Large (5-10 km2)",
                         "Very Large (>10 km2)">>)
    /\ region_dist # <<>> =>
          OrdinalTable(region_dist, "latitude_band",
                       <<"Southern Maine", "South-Central Maine", "Central Maine",
                         "Northern Maine">>)

\* a table with an empty category listed ahead of a larger count: an order
\* by frequency would list these two rows the other way round
OutOfFrequencyOrder(table) ==
    \E j, k \in 1..Len(table) : j < k /\ table[j].count = 0 /\ table[k].count > 0

C8_Witness ==
    /\ pc = "done"
    /\ OutOfFrequencyOrder(size_counts)
    /\ OutOfFrequencyOrder(region_dist)

\* C9: for any two records with areas a <= b, the rank of the category of a
\* (Small < Medium < Large < Very Large) is at most the rank of the category
\* of b.
C9_SizeMonotonic ==
    HasColumn("size_category") =>
        \A i, j \in Rows :
            Column("geometry")[i].area <= Column("geometry")[j].area
                => SizeRank(Column("size_category")[i])
                      <= SizeRank(Column("size_category")[j])

C9_Witness ==
    /\ HasColumn("size_category")
    /\ \E i, j \in Rows :
          /\ Column("geometry")[i].area < Column("geometry")[j].area
          /\ SizeRank(Column("size_category")[i]) = 2
          /\ SizeRank(Column("size_category")[j]) = 3

RECURSIVE SumCounts(_, _)
SumCounts(table, n) == IF n = 0 THEN 0 ELSE table[n].count + SumCounts(table, n - 1)

\* C10: in a run that completes, the counts of each table add up to the
\* number of records.
C10_CountsAddUp ==
    pc = "done" =>
        /\ SumCounts(size_counts, Len(size_counts)) = summary[1].total_areas
        /\ SumCounts(region_dist, Len(region_dist)) = summary[1].total_areas

====
